---- MODULE Spec2Model ----
(***************************************************************************)
(* State machine of the NameThatSpotify game server (the Express and       *)
(* socket.io handlers over the single in-memory gameState object).         *)
(* One action per handler; now is the value Date.now() returns, and Tick   *)
(* lets time pass between two handlers.                                    *)
(***************************************************************************)
EXTENDS Integers, Sequences, FiniteSets, TLC

\* ------------------------------------------------------------ bounds
MaxPending == 1
MaxRoundSteps == 7
MaxRosterSteps == 7
MaxGuardSteps == 11
MaxNetSteps == 7
StartNow == 2000000

\* ------------------------------------------------- program constants
ThrottleMs == 1000
MinLyricLetters == 12
MaxFailedAttempts == 5
LockMs == 60000
FailureWindowMs == 60000
CodeTtlMs == 30 * 60 * 1000
BlockMs == 10 * 60 * 1000

\* ------------------------------------------------------- input sets
Sockets == {"s1", "s2"}
Names == {"A", "B"}
Ips == {"ip1", "ip2"}
Tracks == {"t1", "t2"}
Codes == {"111111", "222222"}
IpOf(s) == IF s = "s1" THEN "ip1" ELSE "ip2"

\* JS values with no TLA+ counterpart of the same type
NaN == -1
NoCode == ""
NoTime == 0
NoLyrics == <<>>
NoSong == [id |-> "", name |-> <<>>, artists |-> <<>>, lyrics |-> NoLyrics]

\* ------------------------------------------------------ JS objects
EmptyMap == [k \in {} |-> 0]
Put(f, k, v) == [x \in (DOMAIN f) \cup {k} |-> IF x = k THEN v ELSE f[x]]
Del(f, k) == [x \in (DOMAIN f) \ {k} |-> f[x]]
Has(f, k) == k \in DOMAIN f
Values(f) == {f[k] : k \in DOMAIN f}

Max2(a, b) == IF a >= b THEN a ELSE b
Min2(a, b) == IF a <= b THEN a ELSE b

VARIABLES
  now,
  accessToken,
  currentSong,
  players,
  scores,
  isPlaying,
  guessedParts,
  trackStatus,
  songStates,
  bonusAwarded,
  playersWhoGuessed,
  activeUsernames,
  currentGuesses,
  lastGuessTimestamps,
  gameCode,
  gameCodeExpiry,
  adminConnected,
  bruteForceProtection,
  blockedIps,
  socketToIp,
  connected,
  pendingPlay,
  out,
  bonusCount,
  pointCount,
  scorers,
  leftComplete,
  accepted,
  processed,
  lockedWindow,
  steps

gameVars == <<accessToken, currentSong, players, scores, isPlaying, guessedParts,
              trackStatus, songStates, bonusAwarded, playersWhoGuessed,
              activeUsernames, currentGuesses, lastGuessTimestamps, gameCode,
              gameCodeExpiry, adminConnected, bruteForceProtection, blockedIps,
              socketToIp>>
envVars == <<connected, pendingPlay>>
histVars == <<bonusCount, pointCount, scorers, leftComplete, accepted, processed>>
vars == <<now, gameVars, envVars, out, histVars, lockedWindow, steps>>

codeVars == <<gameCode, gameCodeExpiry, adminConnected>>
rosterVars == <<players, scores, activeUsernames, lastGuessTimestamps>>
roundVars == <<currentSong, guessedParts, trackStatus, songStates, bonusAwarded,
               playersWhoGuessed, currentGuesses>>
netVars == <<blockedIps, socketToIp>>

FreshParts == [artist |-> FALSE, title |-> FALSE, lyrics |-> "false"]
FreshGuesses == [artist |-> <<>>, title |-> <<>>, lyrics |-> <<>>]
FreshProtection == [failedAttempts |-> 0, lastFailedAttempt |-> 0, blockedUntil |-> 0]
FreshBruteForce == [adminPassword |-> FreshProtection, gameCode |-> FreshProtection]

\* One emitted message: a socket.io event ("all" or one socket) or an HTTP
\* response (to = "http", ev = the status).
Msg(to, ev) ==
  [to |-> to, ev |-> ev, player |-> "", parts |-> {}, bonus |-> FALSE, answers |-> {}]

Init ==
  /\ now = StartNow
  /\ accessToken = FALSE
  /\ currentSong = NoSong
  /\ players = EmptyMap
  /\ scores = EmptyMap
  /\ isPlaying = FALSE
  /\ guessedParts = FreshParts
  /\ trackStatus = EmptyMap
  /\ songStates = EmptyMap
  /\ bonusAwarded = FALSE
  /\ playersWhoGuessed = {}
  /\ activeUsernames = {}
  /\ currentGuesses = FreshGuesses
  /\ lastGuessTimestamps = EmptyMap
  /\ gameCode = NoCode
  /\ gameCodeExpiry = NoTime
  /\ adminConnected = FALSE
  /\ bruteForceProtection = FreshBruteForce
  /\ blockedIps = EmptyMap
  /\ socketToIp = EmptyMap
  /\ connected = {}
  /\ pendingPlay = {}
  /\ out = {}
  /\ bonusCount = [t \in Tracks |-> 0]
  /\ pointCount = [t \in Tracks |-> [artist |-> 0, title |-> 0, lyrics |-> 0]]
  /\ scorers = [t \in Tracks |-> {}]
  /\ leftComplete = {}
  /\ accepted = EmptyMap
  /\ processed = EmptyMap
  /\ lockedWindow = [adminPassword |-> NoTime, gameCode |-> NoTime]
  /\ steps = 0

\* ------------------------------------------------------------- text
\* A title or artist is the list of words of its normalized form
\* (normalizeTitle/normalizeArtist, then split(/\s+/)); a lyric text is its
\* list of characters.
LetterChars == {"a", "b", "c", "d", "e", "f", "g", "h", "i", "j", "k", "l", "m",
                "n", "o", "p", "q", "r", "s", "t", "u", "v", "w", "x", "y", "z"}
DigitChars == {"0", "1", "2", "3", "4", "5", "6", "7", "8", "9"}
\* \w of a lower-case text
WordChars == LetterChars \cup DigitChars \cup {"_"}
SpaceChars == {" ", "\n"}

RECURSIVE CountLetters(_)
\* countLetters(text): the characters \w keeps.
CountLetters(text) ==
  IF text = <<>> THEN 0
  ELSE (IF Head(text) \in WordChars THEN 1 ELSE 0) + CountLetters(Tail(text))

RECURSIVE StripPunct(_)
StripPunct(text) ==
  IF text = <<>> THEN <<>>
  ELSE IF Head(text) \in WordChars \cup SpaceChars
         THEN <<Head(text)>> \o StripPunct(Tail(text))
         ELSE StripPunct(Tail(text))

RECURSIVE CollapseSpaces(_)
CollapseSpaces(text) ==
  IF text = <<>> THEN <<>>
  ELSE IF Head(text) \in SpaceChars
         THEN IF Len(text) > 1 /\ text[2] \in SpaceChars
                THEN CollapseSpaces(Tail(text))
                ELSE <<" ">> \o CollapseSpaces(Tail(text))
         ELSE <<Head(text)>> \o CollapseSpaces(Tail(text))

RECURSIVE TrimLeft(_)
TrimLeft(text) ==
  IF text # <<>> /\ Head(text) \in SpaceChars THEN TrimLeft(Tail(text)) ELSE text

RECURSIVE TrimRight(_)
TrimRight(text) ==
  IF text # <<>> /\ text[Len(text)] \in SpaceChars
    THEN TrimRight(SubSeq(text, 1, Len(text) - 1)) ELSE text

Trim(text) == TrimRight(TrimLeft(text))

\* normalizeText(text) (inputs are lower case already)
NormalizeText(text) == Trim(CollapseSpaces(StripPunct(text)))

\* String.prototype.includes
Includes(hay, needle) ==
  \E i \in 0..(Len(hay) - Len(needle)) : SubSeq(hay, i + 1, i + Len(needle)) = needle

RECURSIVE Concat(_)
Concat(words) == IF words = <<>> THEN "" ELSE Head(words) \o Concat(Tail(words))

InWords(w, words) == \E i \in 1..Len(words) : words[i] = w
CountIn(ws, words) == Cardinality({i \in 1..Len(ws) : InWords(ws[i], words)})

\* A match that always asks for two matching words and has no exact-match
\* rule: the variant of IsCorrectName under which a one-word name is never
\* guessed, not even by itself.
IsCorrectNameTwoWords(actualWords, guessWords) ==
  /\ Len(actualWords) > 0
  /\ Len(guessWords) > 0
  /\ 10 * CountIn(guessWords, actualWords) >= 8 * Max2(Len(actualWords), Len(guessWords))
  /\ CountIn(guessWords, actualWords) >= 2

\* The match of one guess against one actual title or artist (the body of the
\* artists.find callback; the title check repeats it).
IsCorrectName(actualWords, guessWords) ==
  /\ Len(actualWords) > 0
  /\ Len(guessWords) > 0
  /\ LET matching == CountIn(guessWords, actualWords)
         longest == Max2(Len(actualWords), Len(guessWords))
         minWordsRequired == Min2(2, Len(actualWords))
         allActualWordsFound == \A i \in 1..Len(actualWords) : InWords(actualWords[i], guessWords)
         significant == {i \in 1..Len(actualWords) : Len(actualWords[i]) > 2}
         matchingSignificant == {i \in significant : InWords(actualWords[i], guessWords)}
     IN \/ 10 * matching >= 8 * longest /\ matching >= minWordsRequired
        \/ actualWords = guessWords
        \/ 10 * Len(guessWords) >= 7 * Len(actualWords) /\ allActualWordsFound
        \/ Len(guessWords) = 1 /\ Len(actualWords) > 1 /\ Concat(actualWords) = guessWords[1]
        \/ /\ Len(guessWords) < Len(actualWords)
           /\ significant # {}
           /\ 10 * Cardinality(matchingSignificant) >= 9 * Cardinality(significant)
        \/ Len(guessWords) < Len(actualWords) /\ allActualWordsFound

\* ------------------------------------------------------------ songs
\* What the playback provider resolves a track to.
TrackName(t) == IF t = "t1" THEN <<"love", "you">> ELSE <<"hey", "jude">>
TrackArtists(t) == IF t = "t1" THEN << <<"queen">> >> ELSE << <<"the", "beatles">> >>
TrackLyrics(t) ==
  IF t = "t1"
    THEN <<"i", "s", " ", "t", "h", "i", "s", " ", "t", "h", "e", "\n",
           "r", "e", "a", "l", " ", "l", "i", "f", "e", "?">>
    ELSE <<"h", "e", "y", " ", "j", "u", "d", "e", ",", " ",
           "d", "o", "n", "t", " ", "b", "e", " ", "a", "f", "r", "a", "i", "d">>

\* What players type for the given song.
WrongName == <<"abba">>
ShortLyric(t) == SubSeq(TrackLyrics(t), 1, 8)
GoodLyric(t) == SubSeq(TrackLyrics(t), 1, 16)
WrongLyric == <<"n", "e", "v", "e", "r", " ", "g", "o", "n", "n", "a", " ", "g", "i", "v", "e">>

AllGuesses(t) ==
  [artist : {<<>>, TrackArtists(t)[1], WrongName},
   title : {<<>>, TrackName(t), WrongName},
   lyrics : {<<>>, ShortLyric(t), GoodLyric(t), WrongLyric}]

\* ------------------------------------------------------------ clock
\* Time passes between two handlers.
Tick(d, span) ==
  /\ now + d <= StartNow + span
  /\ now' = now + d
  /\ out' = {}
  /\ UNCHANGED <<gameVars, envVars, histVars, lockedWindow>>

\* ------------------------------------------------ session code reset
\* A reset that forgets the scores: the variant of ResetGameCode under which
\* an expired session would end with its scores still on the board.
ResetGameCodeKeepsScores ==
  /\ gameCode' = NoCode
  /\ gameCodeExpiry' = NoTime
  /\ adminConnected' = FALSE
  /\ players' = EmptyMap
  /\ scores' = scores
  /\ activeUsernames' = {}
  /\ currentSong' = NoSong
  /\ isPlaying' = FALSE
  /\ guessedParts' = FreshParts
  /\ trackStatus' = EmptyMap
  /\ songStates' = EmptyMap
  /\ bonusAwarded' = FALSE
  /\ playersWhoGuessed' = {}
  /\ currentGuesses' = FreshGuesses
  /\ lastGuessTimestamps' = EmptyMap
  /\ bruteForceProtection' = FreshBruteForce
  /\ socketToIp' = EmptyMap
  /\ bonusCount' = [t \in Tracks |-> 0]
  /\ pointCount' = [t \in Tracks |-> [artist |-> 0, title |-> 0, lyrics |-> 0]]
  /\ scorers' = [t \in Tracks |-> {}]
  /\ leftComplete' = {}
  /\ accepted' = EmptyMap
  /\ processed' = EmptyMap

\* resetGameCode(): everything except accessToken and blockedIps.
ResetGameCode ==
  /\ gameCode' = NoCode
  /\ gameCodeExpiry' = NoTime
  /\ adminConnected' = FALSE
  /\ players' = EmptyMap
  /\ scores' = EmptyMap
  /\ activeUsernames' = {}
  /\ currentSong' = NoSong
  /\ isPlaying' = FALSE
  /\ guessedParts' = FreshParts
  /\ trackStatus' = EmptyMap
  /\ songStates' = EmptyMap
  /\ bonusAwarded' = FALSE
  /\ playersWhoGuessed' = {}
  /\ currentGuesses' = FreshGuesses
  /\ lastGuessTimestamps' = EmptyMap
  /\ bruteForceProtection' = FreshBruteForce
  /\ socketToIp' = EmptyMap
  /\ bonusCount' = [t \in Tracks |-> 0]
  /\ pointCount' = [t \in Tracks |-> [artist |-> 0, title |-> 0, lyrics |-> 0]]
  /\ scorers' = [t \in Tracks |-> {}]
  /\ leftComplete' = {}
  /\ accepted' = EmptyMap
  /\ processed' = EmptyMap

\* The variables resetGameCode() assigns, for the handlers that do not call it.
resetVars == <<gameCode, gameCodeExpiry, adminConnected, players, scores,
               activeUsernames, currentSong, isPlaying, guessedParts, trackStatus,
               songStates, bonusAwarded, playersWhoGuessed, currentGuesses,
               lastGuessTimestamps, bruteForceProtection, socketToIp,
               bonusCount, pointCount, scorers, leftComplete, accepted, processed,
               accessToken, blockedIps>>

CodeExpired == gameCodeExpiry # NoTime /\ now > gameCodeExpiry

\* A round start that leaves the expiry alone: the variant of ExtendGameCode
\* under which a session in play runs out thirty minutes after the sign-in.
ExtendGameCodeNot(expiry) == expiry

\* extendGameCode()
ExtendGameCode(expiry) == IF gameCode # NoCode THEN now + CodeTtlMs ELSE expiry

\* A sweep that notices the expiry and does nothing about it: the variant of
\* CheckGameCodeExpiry under which an abandoned session stays for ever.
CheckGameCodeExpiryIdle ==
  /\ gameCode # NoCode
  /\ CodeExpired
  /\ out' = {}
  /\ UNCHANGED <<now, gameVars, envVars, histVars, lockedWindow>>

\* A sweep that also empties the block table: the variant of
\* CheckGameCodeExpiry under which a kicked address is let back in by the
\* end of the session.
CheckGameCodeExpiryWipe ==
  /\ gameCode # NoCode
  /\ CodeExpired
  /\ ResetGameCode
  /\ blockedIps' = EmptyMap
  /\ out' = {Msg("all", "gameEnded")}
  /\ UNCHANGED <<now, lockedWindow, envVars, accessToken>>

\* checkGameCodeExpiry(), run by setInterval every minute.
CheckGameCodeExpiry ==
  /\ gameCode # NoCode
  /\ CodeExpired
  /\ ResetGameCode
  /\ out' = {Msg("all", "gameEnded")}
  /\ UNCHANGED <<now, lockedWindow, envVars, accessToken, blockedIps>>

\* ------------------------------------------------ brute force guard
\* A guard that is still closed at the instant the lock runs out: the variant
\* of IsBlocked under which a right password at that instant must fail.
IsBlockedThrough(bfp, type) == now <= bfp[type].blockedUntil

\* checkBruteForceProtection(type).blocked
IsBlocked(bfp, type) == now < bfp[type].blockedUntil

\* checkBruteForceProtection(type), the not-blocked path: its side effect.
CheckBruteForceProtection(bfp, type) ==
  IF now - bfp[type].lastFailedAttempt > FailureWindowMs
    THEN [bfp EXCEPT ![type].failedAttempts = 0]
    ELSE bfp

RecordFailedAttempt(bfp, type) ==
  LET n == bfp[type].failedAttempts + 1 IN
  [bfp EXCEPT ![type] =
     [failedAttempts |-> n,
      lastFailedAttempt |-> now,
      blockedUntil |-> IF n >= MaxFailedAttempts THEN now + LockMs ELSE @.blockedUntil]]

ResetFailedAttempts(bfp, type) == [bfp EXCEPT ![type] = FreshProtection]

\* The end of the latest lock placed on a key, kept when the guard is cleared.
Window(win, bfp, type) == [win EXCEPT ![type] = Max2(@, bfp[type].blockedUntil)]

\* ------------------------------------------------------ IP blocking
\* isIpBlocked(ip): the answer, and the table after its lazy deletion.
IsIpBlocked(ip) == Has(blockedIps, ip) /\ ~(now > blockedIps[ip].blockedUntil)
AfterIpLookup(ip) ==
  IF Has(blockedIps, ip) /\ now > blockedIps[ip].blockedUntil
    THEN Del(blockedIps, ip) ELSE blockedIps

BlockIp(table, ip, reason) ==
  Put(table, ip, [blockedUntil |-> now + BlockMs, reason |-> reason])

\* cleanupExpiredBlocks(), run by setInterval every five minutes.
CleanupExpiredBlocks ==
  /\ \E ip \in DOMAIN blockedIps : now > blockedIps[ip].blockedUntil
  /\ blockedIps' = [ip \in {i \in DOMAIN blockedIps : ~(now > blockedIps[i].blockedUntil)}
                      |-> blockedIps[ip]]
  /\ out' = {}
  /\ UNCHANGED <<now, lockedWindow, accessToken, isPlaying, codeVars, rosterVars, roundVars,
                 bruteForceProtection, socketToIp, envVars, histVars>>

\* ------------------------------------------------ POST /api/verify-admin
\* password is "good" when it equals process.env.ADMIN_PASSWORD (configured);
\* fresh is the code generateGameCode() draws.
VerifyAdmin(password, fresh) ==
  /\ IF IsBlocked(bruteForceProtection, "adminPassword")
       THEN /\ out' = {Msg("http", "429")}
            /\ UNCHANGED <<bruteForceProtection, gameCode, gameCodeExpiry, adminConnected>>
       ELSE LET bfp == CheckBruteForceProtection(bruteForceProtection, "adminPassword") IN
            IF password = "good"
              THEN /\ bruteForceProtection' = ResetFailedAttempts(bfp, "adminPassword")
                   /\ gameCode' = fresh
                   /\ gameCodeExpiry' = now + CodeTtlMs
                   /\ adminConnected' = TRUE
                   /\ out' = {Msg("http", "200")}
              ELSE /\ bruteForceProtection' = RecordFailedAttempt(bfp, "adminPassword")
                   /\ out' = {Msg("http", "401")}
                   /\ UNCHANGED <<gameCode, gameCodeExpiry, adminConnected>>
  /\ lockedWindow' = Window(lockedWindow, bruteForceProtection', "adminPassword")
  /\ UNCHANGED <<now, accessToken, isPlaying, rosterVars, roundVars, netVars,
                 envVars, histVars>>


\* --------------------------------------------------- round helpers
\* scores[playerName]++ : undefined++ and NaN++ are NaN.
Inc(sc, name) ==
  Put(sc, name, IF Has(sc, name) /\ sc[name] # NaN THEN sc[name] + 1 ELSE NaN)

IncIf(cond, sc, name) == IF cond THEN Inc(sc, name) ELSE sc

\* A rate limit test that lets every guess through: the variant of Throttled
\* under which the rate-limit property must fail.
ThrottledOff(last) == now - last < 0

\* The rate limit test of makeGuess.
Throttled(last) == now - last < ThrottleMs

\* A completion test that waits for a lyrics guess even when there are no
\* lyrics: the variant of AllPartsGuessed under which a round without lyrics
\* can never be complete.
AllPartsGuessedStrict(gp) == gp.artist /\ gp.title /\ gp.lyrics = "true"

\* allPartsGuessed, as makeGuess and manual-award compute it.
AllPartsGuessed(gp) ==
  gp.artist /\ gp.title /\ (gp.lyrics = "true" \/ gp.lyrics = "null")

AnyGuessed(gp) == gp.artist \/ gp.title \/ gp.lyrics = "true"

\* The bonus test: all parts guessed, no bonus yet, one contributor.
BonusDue(all, awarded, contributors) ==
  all /\ ~awarded /\ Cardinality(contributors) = 1

\* The object makeGuess stores in songStates: built before the guesser joins
\* playersWhoGuessed and before the bonus is decided.
GuessSavedState(all, gp, awarded, contributors, log) ==
  [isComplete |-> all, guessedParts |-> gp, bonusAwarded |-> awarded,
   playersWhoGuessed |-> contributors, currentGuesses |-> log]

\* The object manual-award stores: built after both.
AwardSavedState(all, gp, awarded, contributors, log) ==
  [isComplete |-> all, guessedParts |-> gp, bonusAwarded |-> awarded,
   playersWhoGuessed |-> contributors, currentGuesses |-> log]

GetTrackStatus(ts, id) == IF Has(ts, id) THEN ts[id] ELSE "unplayed"

LogEntry(text, name) == [guess |-> text, player |-> name, timestamp |-> now]
Push(log, text, name) == IF text # <<>> THEN Append(log, LogEntry(text, name)) ELSE log

\* currentGuesses shares its arrays with songStates[id].currentGuesses once
\* the song has a stored state, so a push shows in both.
AliasLog(states, id, log) ==
  IF Has(states, id) THEN [states EXCEPT ![id].currentGuesses = log] ELSE states

AddPoints(pc, id, parts) ==
  [pc EXCEPT ![id] = [c \in {"artist", "title", "lyrics"} |->
                        IF c \in parts THEN @[c] + 1 ELSE @[c]]]

GuessMsg(name, parts, bonus) ==
  [to |-> "all", ev |-> "correctGuess", player |-> name, parts |-> parts, bonus |-> bonus,
   answers |-> {}]

\* The categories whose flag in guessedParts says guessed.
GuessedSet(gp) ==
  {c \in {"artist", "title"} : gp[c]} \cup (IF gp.lyrics = "true" THEN {"lyrics"} ELSE {})

\* The categories whose answer text a song object carries: name and artists
\* always, lyrics when the provider returned some.
SongAnswers(song) ==
  IF song = NoSong THEN {}
  ELSE {"title", "artist"} \cup (IF song.lyrics # NoLyrics THEN {"lyrics"} ELSE {})

\* io.emit('newSong', {...songData, guessedParts, currentGuesses})
SongMsg(song, gp) ==
  [to |-> "all", ev |-> "newSong", player |-> "", parts |-> GuessedSet(gp),
   bonus |-> FALSE, answers |-> SongAnswers(song)]

\* socket.emit('gameState', {currentSong, players, scores, isPlaying, guessedParts})
StateMsg(s) ==
  [to |-> s, ev |-> "gameState", player |-> "", parts |-> GuessedSet(guessedParts),
   bonus |-> FALSE, answers |-> SongAnswers(currentSong)]

\* ---------------------------------------------- socket.on('makeGuess')
MakeGuess(s, g) ==
  /\ s \in connected
  /\ UNCHANGED <<now, lockedWindow, accessToken, isPlaying, codeVars, players, activeUsernames,
                 bruteForceProtection, netVars, envVars, leftComplete>>
  /\ IF ~Has(players, s) \/ currentSong = NoSong
       THEN /\ out' = {}
            /\ UNCHANGED <<scores, lastGuessTimestamps, roundVars, bonusCount,
                           pointCount, scorers, accepted, processed>>
       ELSE
       LET name == players[s]
           last == IF Has(lastGuessTimestamps, name) THEN lastGuessTimestamps[name] ELSE 0
       IN
       IF Throttled(last)
         THEN /\ out' = {Msg(s, "validationError")}
              /\ UNCHANGED <<scores, lastGuessTimestamps, roundVars, bonusCount,
                             pointCount, scorers, accepted, processed>>
         ELSE
         LET id == currentSong.id
             log == [artist |-> Push(currentGuesses.artist, g.artist, name),
                     title |-> Push(currentGuesses.title, g.title, name),
                     lyrics |-> Push(currentGuesses.lyrics, Trim(g.lyrics), name)]
             artistHit == /\ g.artist # <<>>
                          /\ ~guessedParts.artist
                          /\ \E i \in 1..Len(currentSong.artists) :
                                IsCorrectName(currentSong.artists[i], g.artist)
             titleHit == /\ g.title # <<>>
                         /\ ~guessedParts.title
                         /\ IsCorrectName(currentSong.name, g.title)
             gp1 == [guessedParts EXCEPT !.artist = @ \/ artistHit,
                                         !.title = @ \/ titleHit]
             sc1 == IncIf(titleHit, IncIf(artistHit, scores, name), name)
             tooShort == /\ g.lyrics # <<>>
                         /\ guessedParts.lyrics = "false"
                         /\ CountLetters(g.lyrics) < MinLyricLetters
             unavailable == g.lyrics # <<>> /\ guessedParts.lyrics = "null"
             lyricsHit == /\ g.lyrics # <<>>
                          /\ guessedParts.lyrics = "false"
                          /\ ~tooShort
                          /\ Includes(NormalizeText(currentSong.lyrics), NormalizeText(g.lyrics))
             gp2 == [gp1 EXCEPT !.lyrics = IF lyricsHit THEN "true" ELSE @]
             sc2 == IncIf(lyricsHit, sc1, name)
             early == {c \in {"artist", "title"} :
                         (c = "artist" /\ artistHit) \/ (c = "title" /\ titleHit)}
             correctParts == early \cup (IF lyricsHit THEN {"lyrics"} ELSE {})
             all == AllPartsGuessed(gp2)
             ts1 == IF all THEN Put(trackStatus, id, "complete")
                    ELSE IF AnyGuessed(gp2) THEN Put(trackStatus, id, "partial")
                    ELSE trackStatus
             contributors == playersWhoGuessed \cup {name}
             bonus == BonusDue(all, bonusAwarded, contributors)
             sc3 == IncIf(bonus, sc2, name)
             ts2 == IF GetTrackStatus(ts1, id) = "played" /\ ~all
                      THEN Put(ts1, id, "partial")
                    ELSE IF all THEN Put(ts1, id, "complete")
                    ELSE ts1
         IN
         /\ lastGuessTimestamps' = Put(lastGuessTimestamps, name, now)
         /\ accepted' = Put(accepted, s, now)
         /\ processed' = Put(processed, name, now)
         /\ currentGuesses' = log
         /\ UNCHANGED currentSong
         /\ IF tooShort \/ unavailable
              THEN \* return after the validationError: nothing below runs
                   /\ guessedParts' = gp1
                   /\ scores' = sc1
                   /\ songStates' = AliasLog(songStates, id, log)
                   /\ pointCount' = AddPoints(pointCount, id, early)
                   /\ out' = {Msg(s, "validationError")}
                   /\ UNCHANGED <<trackStatus, bonusAwarded, playersWhoGuessed, bonusCount,
                                  scorers>>
              ELSE /\ guessedParts' = gp2
                   /\ songStates' = Put(songStates, id,
                          GuessSavedState(all, gp2, bonusAwarded, playersWhoGuessed, log))
                   /\ pointCount' = AddPoints(pointCount, id, correctParts)
                   /\ IF correctParts # {}
                        THEN /\ playersWhoGuessed' = contributors
                             /\ scores' = sc3
                             /\ bonusAwarded' = (bonusAwarded \/ bonus)
                             /\ bonusCount' = [bonusCount EXCEPT ![id] = IF bonus THEN @ + 1 ELSE @]
                             /\ scorers' = [scorers EXCEPT ![id] = @ \cup {name}]
                             /\ trackStatus' = ts2
                             /\ out' = {GuessMsg(name, correctParts, bonus), Msg("all", "guessesUpdated")}
                        ELSE /\ scores' = sc2
                             /\ trackStatus' = ts1
                             /\ out' = {Msg(s, "incorrectGuess"), Msg("all", "guessesUpdated")}
                             /\ UNCHANGED <<bonusAwarded, playersWhoGuessed, bonusCount,
                                            scorers>>

\* A socket's accepted-guess time is kept while it stays bound to its name.
KeepAccepted(newPlayers) ==
  [x \in {y \in DOMAIN accepted :
            Has(newPlayers, y) /\ Has(players, y) /\ newPlayers[y] = players[y]}
     |-> accepted[x]]

StillActive(names, newPlayers, name) ==
  IF name \in Values(newPlayers) THEN names ELSE names \ {name}

\* ---------------------------------------------- io.on('connection')
Connect(s, ip) ==
  /\ s \notin connected
  /\ socketToIp' = Put(socketToIp, s, ip)
  /\ blockedIps' = AfterIpLookup(ip)
  /\ IF IsIpBlocked(ip)
       THEN /\ out' = {Msg(s, "accessDenied")}
            /\ UNCHANGED connected
       ELSE /\ out' = {StateMsg(s)}
            /\ connected' = connected \cup {s}
  /\ UNCHANGED <<now, lockedWindow, accessToken, isPlaying, codeVars, rosterVars, roundVars,
                 bruteForceProtection, pendingPlay, histVars>>

\* ---------------------------------------------- socket.on('disconnect')
Disconnect(s) ==
  /\ s \in connected
  /\ connected' = connected \ {s}
  /\ socketToIp' = Del(socketToIp, s)
  /\ IF Has(players, s)
       THEN /\ players' = Del(players, s)
            /\ lastGuessTimestamps' = Del(lastGuessTimestamps, players[s])
            /\ activeUsernames' = StillActive(activeUsernames, players', players[s])
            /\ out' = {Msg("all", "playerLeft")}
       ELSE /\ out' = {}
            /\ UNCHANGED <<players, lastGuessTimestamps, activeUsernames>>
  /\ accepted' = KeepAccepted(players')
  /\ UNCHANGED processed
  /\ UNCHANGED <<now, lockedWindow, accessToken, isPlaying, codeVars, scores, roundVars,
                 bruteForceProtection, blockedIps, pendingPlay, bonusCount,
                 pointCount, scorers, leftComplete>>

\* A takeover that leaves the old connection bound: the variant of Detach
\* under which a name ends up bound to two connections.
DetachNot(pl, e) == pl

\* delete gameState.players[existingSocketId]
Detach(pl, e) == Del(pl, e)

\* ---------------------------------------------- socket.on('playerJoin')
\* Object.keys(players).find picks the first socket bound to the name; the
\* model lets it be any of them.
PlayerJoin(s, playerName, code) ==
  /\ s \in connected
  /\ UNCHANGED <<now, lockedWindow, envVars>>
  /\ IF gameCode = NoCode \/ gameCode # code
       THEN /\ out' = {Msg(s, "gameCodeInvalid")}
            /\ UNCHANGED resetVars
       ELSE IF CodeExpired
       THEN /\ ResetGameCode
            /\ out' = {Msg("all", "gameEnded"), Msg(s, "gameCodeInvalid")}
            /\ UNCHANGED <<accessToken, blockedIps>>
       ELSE
       LET existing == {x \in DOMAIN players : players[x] = playerName}
           Bind(pl, stamps) ==
             /\ players' = Put(pl, s, playerName)
             /\ lastGuessTimestamps' = stamps
             /\ activeUsernames' = activeUsernames \cup {playerName}
             /\ scores' = IF Has(scores, playerName) /\ scores[playerName] \notin {0, NaN}
                            THEN scores ELSE Put(scores, playerName, 0)
             /\ accepted' = KeepAccepted(players')
             /\ UNCHANGED processed
             /\ out' = {Msg("all", "playerJoined")}
       IN
       /\ UNCHANGED <<accessToken, isPlaying, codeVars, roundVars, bruteForceProtection,
                      netVars, bonusCount, pointCount, scorers, leftComplete>>
       /\ IF existing = {}
            THEN Bind(players, lastGuessTimestamps)
            ELSE \E e \in existing :
                   IF e = s
                     THEN Bind(players, lastGuessTimestamps)
                   ELSE IF Has(scores, playerName)
                     THEN Bind(Detach(players, e), Del(lastGuessTimestamps, playerName))
                   ELSE /\ out' = {Msg(s, "usernameTaken")}
                        /\ UNCHANGED <<rosterVars, accepted, processed>>

\* ---------------------------------------------- socket.on('verifyGameCode')
VerifyGameCodeSocket(s, code) ==
  /\ s \in connected
  /\ UNCHANGED <<now, lockedWindow, envVars>>
  /\ IF gameCode = NoCode \/ gameCode # code
       THEN /\ out' = {Msg(s, "gameCodeInvalid")}
            /\ UNCHANGED resetVars
       ELSE IF CodeExpired
       THEN /\ ResetGameCode
            /\ out' = {Msg("all", "gameEnded"), Msg(s, "gameCodeInvalid")}
            /\ UNCHANGED <<accessToken, blockedIps>>
       ELSE /\ out' = {Msg(s, "gameCodeValid")}
            /\ UNCHANGED resetVars

\* ---------------------------------------------- POST /api/verify-game-code
VerifyGameCodeHttp(ip, code) ==
  /\ UNCHANGED <<now, envVars>>
  /\ IF IsIpBlocked(ip)
       THEN /\ out' = {Msg("http", "403")}
            /\ UNCHANGED resetVars
       ELSE IF IsBlocked(bruteForceProtection, "gameCode")
       THEN /\ out' = {Msg("http", "429")}
            /\ blockedIps' = AfterIpLookup(ip)
            /\ UNCHANGED <<accessToken, isPlaying, codeVars, rosterVars, roundVars,
                           bruteForceProtection, socketToIp, histVars>>
       ELSE
       LET bfp == CheckBruteForceProtection(bruteForceProtection, "gameCode") IN
       IF gameCode = NoCode
         THEN /\ out' = {Msg("http", "400")}
              /\ bruteForceProtection' = bfp
              /\ blockedIps' = AfterIpLookup(ip)
              /\ UNCHANGED <<accessToken, isPlaying, codeVars, rosterVars, roundVars,
                             socketToIp, histVars>>
       ELSE IF gameCode # code
         THEN /\ out' = {Msg("http", "401")}
              /\ bruteForceProtection' = RecordFailedAttempt(bfp, "gameCode")
              /\ blockedIps' = AfterIpLookup(ip)
              /\ UNCHANGED <<accessToken, isPlaying, codeVars, rosterVars, roundVars,
                             socketToIp, histVars>>
       ELSE IF CodeExpired
         THEN /\ ResetGameCode
              /\ blockedIps' = AfterIpLookup(ip)
              /\ out' = {Msg("all", "gameEnded"), Msg("http", "400")}
              /\ UNCHANGED accessToken
       ELSE /\ out' = {Msg("http", "200")}
            /\ bruteForceProtection' = ResetFailedAttempts(bfp, "gameCode")
            /\ blockedIps' = AfterIpLookup(ip)
            /\ UNCHANGED <<accessToken, isPlaying, codeVars, rosterVars, roundVars,
                           socketToIp, histVars>>
  /\ lockedWindow' = Window(lockedWindow, bruteForceProtection', "gameCode")

\* ---------------------------------------------- POST /api/kick-player
KickPlayer(s, reason) ==
  /\ UNCHANGED <<now, lockedWindow, accessToken, isPlaying, codeVars, scores, lastGuessTimestamps,
                 roundVars, bruteForceProtection, pendingPlay, bonusCount,
                 pointCount, scorers, leftComplete>>
  /\ IF ~adminConnected
       THEN /\ out' = {Msg("http", "401")}
            /\ UNCHANGED <<players, activeUsernames, netVars, connected, accepted, processed>>
       ELSE IF ~Has(players, s)
       THEN /\ out' = {Msg("http", "404")}
            /\ UNCHANGED <<players, activeUsernames, netVars, connected, accepted, processed>>
       ELSE /\ players' = Del(players, s)
            /\ socketToIp' = Del(socketToIp, s)
            /\ activeUsernames' = StillActive(activeUsernames, players', players[s])
            /\ blockedIps' = IF Has(socketToIp, s)
                               THEN BlockIp(blockedIps, socketToIp[s], reason)
                               ELSE blockedIps
            /\ connected' = connected \ {s}
            /\ accepted' = KeepAccepted(players')
            /\ UNCHANGED processed
            /\ out' = {Msg("all", "playerKicked"), Msg("http", "200")}

\* ---------------------------------------------- POST /api/reset-scores
ResetScores ==
  /\ scores' = EmptyMap
  /\ out' = {Msg("all", "scoresReset"), Msg("http", "200")}
  /\ UNCHANGED <<now, lockedWindow, accessToken, isPlaying, codeVars, players, activeUsernames,
                 lastGuessTimestamps, roundVars, bruteForceProtection, netVars,
                 envVars, histVars>>

\* A check that lets every number through: the variant of ValidScore under
\* which a negative score lands on the board.
ValidScoreAny(newScore) == TRUE

\* typeof newScore === 'number' && newScore >= 0, for a number
ValidScore(newScore) == newScore >= 0

\* ---------------------------------------------- POST /api/update-score
UpdateScore(playerName, newScore) ==
  /\ IF ~ValidScore(newScore)
       THEN /\ out' = {Msg("http", "400")}
            /\ UNCHANGED scores
       ELSE /\ scores' = Put(scores, playerName, newScore)
            /\ out' = {Msg("all", "scoresUpdated"), Msg("http", "200")}
  /\ UNCHANGED <<now, lockedWindow, accessToken, isPlaying, codeVars, players, activeUsernames,
                 lastGuessTimestamps, roundVars, bruteForceProtection, netVars,
                 envVars, histVars>>

\* ---------------------------------------------- POST /api/reset-playlist
ResetPlaylist ==
  /\ trackStatus' = [t \in DOMAIN trackStatus |-> "unplayed"]
  /\ songStates' = EmptyMap
  /\ currentSong' = NoSong
  /\ guessedParts' = FreshParts
  /\ isPlaying' = FALSE
  /\ bonusAwarded' = FALSE
  /\ playersWhoGuessed' = {}
  /\ activeUsernames' = {}
  /\ currentGuesses' = FreshGuesses
  /\ bonusCount' = [t \in Tracks |-> 0]
  /\ pointCount' = [t \in Tracks |-> [artist |-> 0, title |-> 0, lyrics |-> 0]]
  /\ scorers' = [t \in Tracks |-> {}]
  /\ leftComplete' = {}
  /\ out' = {Msg("all", "playlistReset"), Msg("http", "200")}
  /\ UNCHANGED <<now, lockedWindow, accessToken, codeVars, players, scores, lastGuessTimestamps,
                 bruteForceProtection, netVars, envVars, accepted, processed>>

\* ---------------------------------------------- POST /api/manual-award
ManualAward(playerName, guessType) ==
  /\ UNCHANGED <<now, lockedWindow, accessToken, isPlaying, codeVars, players, activeUsernames,
                 lastGuessTimestamps, bruteForceProtection, netVars, envVars,
                 currentSong, currentGuesses, leftComplete, accepted, processed>>
  /\ IF currentSong = NoSong
          \/ (guessType = "lyrics" /\ guessedParts.lyrics = "true")
          \/ (guessType # "lyrics" /\ guessedParts[guessType])
       THEN /\ out' = {Msg("http", "400")}
            /\ UNCHANGED <<scores, guessedParts, trackStatus, songStates, bonusAwarded,
                           playersWhoGuessed, bonusCount, pointCount, scorers>>
       ELSE
       LET id == currentSong.id
           sc1 == Put(scores, playerName,
                      IF ~Has(scores, playerName) \/ scores[playerName] = NaN
                        THEN 1 ELSE scores[playerName] + 1)
           gp == [guessedParts EXCEPT ![guessType] = IF guessType = "lyrics" THEN "true" ELSE TRUE]
           contributors == playersWhoGuessed \cup {playerName}
           all == AllPartsGuessed(gp)
           bonus == BonusDue(all, bonusAwarded, contributors)
       IN
       /\ scores' = IncIf(bonus, sc1, playerName)
       /\ guessedParts' = gp
       /\ playersWhoGuessed' = contributors
       /\ bonusAwarded' = (bonusAwarded \/ bonus)
       /\ trackStatus' = Put(trackStatus, id, IF all THEN "complete" ELSE "partial")
       /\ songStates' = Put(songStates, id,
              AwardSavedState(all, gp, bonusAwarded', contributors, currentGuesses))
       /\ bonusCount' = [bonusCount EXCEPT ![id] = IF bonus THEN @ + 1 ELSE @]
       /\ pointCount' = AddPoints(pointCount, id, {guessType})
       /\ scorers' = [scorers EXCEPT ![id] = @ \cup {playerName}]
       /\ out' = {GuessMsg(playerName, {guessType}, bonus), Msg("http", "200")}

\* ---------------------------------------------- GET /auth/spotify/callback
SpotifyCallback ==
  /\ ~accessToken
  /\ accessToken' = TRUE
  /\ out' = {}
  /\ UNCHANGED <<now, lockedWindow, isPlaying, codeVars, rosterVars, roundVars,
                 bruteForceProtection, netVars, envVars, histVars>>

\* ---------------------------------------------- POST /api/play
\* Up to the await of getTrack: the playback has started.
PlayRequest(t) ==
  /\ accessToken
  /\ t \notin pendingPlay
  /\ Cardinality(pendingPlay) < MaxPending
  /\ isPlaying' = TRUE
  /\ gameCodeExpiry' = ExtendGameCode(gameCodeExpiry)
  /\ pendingPlay' = pendingPlay \cup {t}
  /\ out' = {}
  /\ UNCHANGED <<now, lockedWindow, accessToken, gameCode, adminConnected, rosterVars, roundVars,
                 bruteForceProtection, netVars, connected, histVars>>

\* guessedParts as /api/play restores it from a stored state.
RestoredParts(prev, lyricsAvailable) ==
  [artist |-> prev.guessedParts.artist,
   title |-> prev.guessedParts.title,
   lyrics |-> IF ~lyricsAvailable THEN "null"
              ELSE IF prev.guessedParts.lyrics = "true" THEN "true" ELSE "false"]

RestoredBonus(prev) == prev.bonusAwarded
RestoredContributors(prev) == prev.playersWhoGuessed

\* After getTrack and fetchLyrics have answered: the round is installed with
\* the name and artists of track.body and the lyrics the provider returned.
PlayInstallTrack(t, name, artists, lyrics) ==
  /\ t \in pendingPlay
  /\ pendingPlay' = pendingPlay \ {t}
  /\ currentSong' = [id |-> t, name |-> name, artists |-> artists, lyrics |-> lyrics]
  /\ IF Has(songStates, t)
       THEN /\ guessedParts' = RestoredParts(songStates[t], lyrics # NoLyrics)
            /\ bonusAwarded' = RestoredBonus(songStates[t])
            /\ playersWhoGuessed' = RestoredContributors(songStates[t])
            /\ currentGuesses' = songStates[t].currentGuesses
       ELSE /\ guessedParts' = [FreshParts EXCEPT !.lyrics = IF lyrics = NoLyrics THEN "null" ELSE "false"]
            /\ bonusAwarded' = FALSE
            /\ playersWhoGuessed' = {}
            /\ currentGuesses' = FreshGuesses
  /\ trackStatus' = IF GetTrackStatus(trackStatus, t) \in {"complete", "partial"}
                      THEN trackStatus ELSE Put(trackStatus, t, "played")
  /\ leftComplete' = IF currentSong # NoSong /\ currentSong.id # t
                          /\ AllPartsGuessed(guessedParts)
                       THEN leftComplete \cup {currentSong.id} ELSE leftComplete
  /\ out' = {SongMsg(currentSong', guessedParts'), Msg("all", "guessesUpdated"), Msg("http", "200")}
  /\ UNCHANGED <<now, lockedWindow, accessToken, isPlaying, codeVars, rosterVars, songStates,
                 bruteForceProtection, netVars, connected, bonusCount, pointCount,
                 scorers, accepted, processed>>

\* The same for the tracks of the playlist.
PlayInstall(t, lyrics) == PlayInstallTrack(t, TrackName(t), TrackArtists(t), lyrics)

\* getTrack or fetchLyrics threw: the catch block answers 500.
PlayFail(t) ==
  /\ t \in pendingPlay
  /\ pendingPlay' = pendingPlay \ {t}
  /\ out' = {Msg("http", "500")}
  /\ UNCHANGED <<now, lockedWindow, gameVars, connected, histVars>>

\* ------------------------------------------------ specifications
\* One counted step of a specification, and one that is not counted.
Counted(max) == steps < max /\ steps' = steps + 1
Free == steps' = steps

Categories == {"artist", "title", "lyrics"}
NameOf(s) == IF s = "s1" THEN "A" ELSE "B"
Guess(a, ti, l) == [artist |-> a, title |-> ti, lyrics |-> l]

\* The round: the admin signs in, both players join, then rounds are played.
RoundSpan == 1000
RoundGuesses(t) ==
  {Guess(TrackArtists(t)[1], <<>>, NoLyrics),
   Guess(TrackArtists(t)[1], TrackName(t), NoLyrics),
   Guess(TrackArtists(t)[1], TrackName(t), GoodLyric(t)),
   Guess(<<>>, TrackName(t), ShortLyric(t)),
   Guess(<<>>, WrongName, NoLyrics)}

Lobby == DOMAIN players = Sockets

RoundSetup ==
  /\ Free
  /\ \/ SpotifyCallback
     \/ accessToken /\ gameCode = NoCode /\ steps = 0 /\ VerifyAdmin("good", "111111")
     \/ \E s \in Sockets :
          /\ gameCode # NoCode /\ steps = 0
          /\ \A x \in connected : Has(players, x)
          /\ Connect(s, IpOf(s))
     \/ \E s \in Sockets :
          /\ ~Has(players, s)
          /\ PlayerJoin(s, NameOf(s), "111111")

RoundStep ==
  /\ Lobby
  /\ Counted(MaxRoundSteps)
  /\ \/ \E t \in Tracks : PlayRequest(t)
     \/ \E t \in Tracks : \E l \in {TrackLyrics(t), NoLyrics} : PlayInstall(t, l)
     \/ \E s \in Sockets : \E g \in RoundGuesses(currentSong.id) : MakeGuess(s, g)
     \/ \E n \in Names : \E c \in Categories : ManualAward(n, c)
     \/ ResetScores
     \/ ResetPlaylist
     \/ Tick(RoundSpan, RoundSpan)

NextRound == RoundSetup \/ RoundStep
SpecRound == Init /\ [][NextRound]_vars

\* The roster: the admin signs in and starts a song, then connections come
\* and go while the scores are edited and the session may run out.
RosterSpan == 1000
RosterTick == 500
ScoreInputs == {-5, 0, 2}
RosterGuesses(t) ==
  {Guess(TrackArtists(t)[1], <<>>, NoLyrics),
   Guess(<<>>, WrongName, NoLyrics)}

RosterSetup ==
  /\ Free
  /\ steps = 0
  /\ \/ SpotifyCallback
     \/ accessToken /\ gameCode = NoCode /\ VerifyAdmin("good", "111111")
     \/ gameCode # NoCode /\ currentSong = NoSong /\ PlayRequest("t1")
     \/ PlayInstall("t1", TrackLyrics("t1"))

RosterStep ==
  /\ currentSong # NoSong \/ steps > 0
  /\ Counted(MaxRosterSteps)
  /\ \/ \E s \in Sockets : Connect(s, IpOf(s))
     \/ \E s \in Sockets : Disconnect(s)
     \/ \E s \in Sockets : \E n \in Names : \E c \in Codes : PlayerJoin(s, n, c)
     \/ \E s \in Sockets : \E g \in RosterGuesses(currentSong.id) : MakeGuess(s, g)
     \/ \E s \in Sockets : KickPlayer(s, "kicked")
     \/ ResetScores
     \/ \E n \in Names : \E v \in ScoreInputs : UpdateScore(n, v)
     \/ ResetPlaylist
     \/ Tick(RosterTick, RosterSpan)
     \/ Tick(CodeTtlMs + 1, CodeTtlMs + 1 + RosterSpan)
     \/ CheckGameCodeExpiry

NextRoster == RosterSetup \/ RosterStep
SpecRoster == Init /\ [][NextRoster]_vars

\* The guard: password attempts against the clock and the expiry sweep.
GuardTicks == {LockMs \div 2, LockMs, CodeTtlMs}
GuardSpan == CodeTtlMs + 3 * LockMs
Passwords == {"good", "bad"}

NextGuard ==
  /\ Counted(MaxGuardSteps)
  /\ \/ \E p \in Passwords : VerifyAdmin(p, "111111")
     \/ \E c \in Codes : VerifyGameCodeHttp("ip1", c)
     \/ \E d \in GuardTicks : Tick(d, GuardSpan)
     \/ CheckGameCodeExpiry

SpecGuard == Init /\ [][NextGuard]_vars

\* The network: connections from two addresses (s2 and s3 share one) join,
\* are kicked and rejoin, while the admin signs in again and the session may
\* run out.
NetSockets == Sockets \cup {"s3"}
NetSpan == CodeTtlMs + 1

NetSetup ==
  /\ Free
  /\ gameCode = NoCode /\ steps = 0
  /\ VerifyAdmin("good", "111111")

NetStep ==
  /\ gameCode # NoCode \/ steps > 0
  /\ Counted(MaxNetSteps)
  /\ \/ \E c \in Codes : VerifyAdmin("good", c)
     \/ \E s \in NetSockets : Connect(s, IpOf(s))
     \/ \E s \in NetSockets : Disconnect(s)
     \/ \E s \in NetSockets : \E n \in Names : \E c \in Codes : PlayerJoin(s, n, c)
     \/ \E s \in NetSockets : \E c \in Codes : VerifyGameCodeSocket(s, c)
     \/ \E ip \in Ips : \E c \in Codes : VerifyGameCodeHttp(ip, c)
     \/ \E s \in NetSockets : KickPlayer(s, "kicked")
     \/ Tick(NetSpan, NetSpan)
     \/ CheckGameCodeExpiry
     \/ CleanupExpiredBlocks

NextNet == NetSetup \/ NetStep
SpecNet == Init /\ [][NextNet]_vars

\* The sweep: one session is opened at the start of the clock and then left
\* to its players and its rounds; setInterval(checkGameCodeExpiry, 60000)
\* keeps firing whatever else happens, so the sweep is not counted and is
\* weakly fair.
MaxSweepSteps == 6
SweepTicks == {LockMs, CodeTtlMs}
SweepSpan == 2 * CodeTtlMs + 2 * LockMs

SweepSetup ==
  /\ Free
  /\ steps = 0 /\ gameCode = NoCode /\ now = StartNow
  /\ IF ~accessToken THEN SpotifyCallback ELSE VerifyAdmin("good", "111111")

SweepStep ==
  /\ gameCode # NoCode \/ steps > 0
  /\ Counted(MaxSweepSteps)
  /\ \/ \E s \in Sockets : Connect(s, IpOf(s))
     \/ \E s \in Sockets : Disconnect(s)
     \/ \E s \in Sockets : PlayerJoin(s, NameOf(s), "111111")
     \/ \E t \in Tracks : PlayRequest(t)
     \/ \E t \in Tracks : PlayInstall(t, TrackLyrics(t))
     \/ \E d \in SweepTicks : Tick(d, SweepSpan)

SweepFire == Free /\ CheckGameCodeExpiry

NextSweep == SweepSetup \/ SweepStep \/ SweepFire
SpecSweep == Init /\ [][NextSweep]_vars /\ WF_vars(SweepFire)

\* The matcher: one player, one track whose title and second artist are
\* drawn from every list of one to three words over a short word, a
\* two-letter word and a long word (repeats included), and guesses drawn from
\* the same lists.
MaxNameWords == 3
MaxMatchSteps == 4
MatchSpan == 2000
MatchWords == {"a", "to", "love"}
MatchNames == UNION {[1..n -> MatchWords] : n \in 1..MaxNameWords}
Reversed(words) == [i \in 1..Len(words) |-> words[Len(words) + 1 - i]]

MatchSetup ==
  /\ Free
  /\ steps = 0 /\ ~Has(players, "s1")
  /\ IF ~accessToken THEN SpotifyCallback
     ELSE IF gameCode = NoCode THEN VerifyAdmin("good", "111111")
     ELSE IF "s1" \notin connected THEN Connect("s1", "ip1")
     ELSE PlayerJoin("s1", "A", "111111")

MatchStep ==
  /\ Has(players, "s1")
  /\ Counted(MaxMatchSteps)
  /\ \/ PlayRequest("t1")
     \/ \E x \in MatchNames :
          PlayInstallTrack("t1", x, <<WrongName, Reversed(x)>>, NoLyrics)
     \/ \E x \in MatchNames : MakeGuess("s1", Guess(<<>>, x, NoLyrics))
     \/ \E x \in MatchNames : MakeGuess("s1", Guess(x, <<>>, NoLyrics))
     \/ Tick(ThrottleMs, MatchSpan)

NextMatch == MatchSetup \/ MatchStep
SpecMatch == Init /\ [][NextMatch]_vars

\* The lyrics check: one player, one track whose lyrics hold a number, and
\* lyrics guesses drawn from every piece of the lyrics and from two texts that
\* are not in them.
MaxLyricSteps == 3
LyricSpan == 1000
LyricText == <<"i", "n", " ", "1", "9", "9", "9", " ", "w", "e", " ", "w", "e", "r", "e", " ", "y", "o", "u", "n", "g">>
LyricPieces ==
  {SubSeq(LyricText, i, j) : i \in 1..Len(LyricText), j \in 1..Len(LyricText)} \ {<<>>}
LyricGuesses == LyricPieces \cup {WrongLyric, SubSeq(WrongLyric, 1, 13)}

LyricStep ==
  /\ Has(players, "s1")
  /\ Counted(MaxLyricSteps)
  /\ \/ PlayRequest("t1")
     \/ PlayInstallTrack("t1", TrackName("t1"), TrackArtists("t1"), LyricText)
     \/ \E l \in LyricGuesses : MakeGuess("s1", Guess(<<>>, <<>>, l))
     \/ Tick(LyricSpan, LyricSpan)

NextLyric == MatchSetup \/ LyricStep
SpecLyric == Init /\ [][NextLyric]_vars

\* ------------------------------------------------------ properties
Sweep(t) == Guess(TrackArtists(t)[1], TrackName(t), GoodLyric(t))
Denied(s) == {Msg(s, "validationError")}
LastOf(name) == IF Has(lastGuessTimestamps, name) THEN lastGuessTimestamps[name] ELSE 0
GuessStep == Msg("all", "guessesUpdated") \in out

\* C1: a guess earns the solo bonus only when nobody else has scored on the
\* current track since the last reset, replays of the track included.
C1_BonusOnlyWhenSolo ==
  \A m \in out :
    (GuessStep /\ m.ev = "correctGuess" /\ m.bonus) => scorers[currentSong.id] = {m.player}

\* C2: a sweep message by a joined, non-throttled player on a fresh round with
\* lyrics raises that player's score by exactly 4, sets the three flags and
\* bonusAwarded, and is broadcast with the bonus.
C2_SoloSweep ==
  [][\A s \in Sockets :
       (/\ Has(players, s)
        /\ currentSong # NoSong
        /\ ~Throttled(LastOf(players[s]))
        /\ guessedParts = FreshParts
        /\ playersWhoGuessed = {}
        /\ scorers[currentSong.id] = {}
        /\ ~bonusAwarded
        /\ MakeGuess(s, Sweep(currentSong.id)))
       => (/\ Has(scores, players[s])
           /\ scores'[players[s]] = scores[players[s]] + 4
           /\ guessedParts' = [artist |-> TRUE, title |-> TRUE, lyrics |-> "true"]
           /\ bonusAwarded'
           /\ GuessMsg(players[s], Categories, TRUE) \in out')]_vars

\* C3: once the bonus of a track has been awarded, bonusAwarded is true
\* whenever that track is current, and the track never earns a second bonus,
\* until a playlist or session reset.
C3_BonusLatches ==
  \A t \in Tracks :
    /\ bonusCount[t] <= 1
    /\ (bonusCount[t] >= 1 /\ currentSong.id = t) => bonusAwarded

\* C4: every connection in players maps to a name whose score is recorded
\* and is a non-negative integer.
C4_PlayersHaveScores ==
  \A s \in DOMAIN players :
    Has(scores, players[s]) /\ scores[players[s]] \in Nat

\* C5: a guess rejected because its lyrics have fewer than 12 letters, or
\* because the round has no lyrics, changes no score, flag, contributor set,
\* guess log, stored round state or track status.
C5_RejectedGuessNoEffect ==
  [][\A s \in Sockets : \A g \in AllGuesses(currentSong.id) :
       (/\ Has(players, s)
        /\ currentSong # NoSong
        /\ ~Throttled(LastOf(players[s]))
        /\ g.lyrics # NoLyrics
        /\ \/ guessedParts.lyrics = "null"
           \/ guessedParts.lyrics = "false" /\ CountLetters(g.lyrics) < MinLyricLetters
        /\ MakeGuess(s, g))
       => (/\ out' = Denied(s)
           /\ UNCHANGED <<scores, guessedParts, playersWhoGuessed, currentGuesses,
                          songStates, trackStatus>>)]_vars

\* C6: a track that was complete when play moved to another track is
\* complete again whenever it is current, until a reset.
C6_ReplayResumesComplete ==
  currentSong.id \in leftComplete => AllPartsGuessed(guessedParts)

\* C7: between resets a track gives at most one point for each category.
C7_OnePointPerCategory ==
  \A t \in Tracks : \A c \in Categories : pointCount[t][c] <= 1

\* C8: a guess sent under a name less than 1000 ms after a guess under that
\* name was processed is denied and changes nothing, reconnections included.
C8_ThrottleByName ==
  [][\A s \in Sockets : \A g \in AllGuesses(currentSong.id) :
       (/\ Has(players, s)
        /\ currentSong # NoSong
        /\ Has(processed, players[s])
        /\ now - processed[players[s]] < ThrottleMs
        /\ MakeGuess(s, g))
       => (/\ out' = Denied(s)
           /\ UNCHANGED <<scores, guessedParts, currentGuesses, songStates>>)]_vars

\* C9: a guess by a connection that has stayed bound to its name, sent less
\* than 1000 ms after its previous processed guess, is denied and changes no
\* score, flag, contributor set, guess log or stored round state; the stored
\* timestamp stays that of the previous guess.
C9_RateLimit ==
  [][\A s \in Sockets : \A g \in AllGuesses(currentSong.id) :
       (/\ Has(players, s)
        /\ currentSong # NoSong
        /\ Has(accepted, s)
        /\ now - accepted[s] < ThrottleMs
        /\ MakeGuess(s, g))
       => (/\ out' = Denied(s)
           /\ lastGuessTimestamps'[players[s]] = accepted[s]
           /\ UNCHANGED <<scores, guessedParts, playersWhoGuessed, currentGuesses,
                          songStates, lastGuessTimestamps>>)]_vars

\* A second guess 500 ms after the first has just been denied.
C9_Witness ==
  \E s \in DOMAIN accepted :
    /\ out = Denied(s)
    /\ now - accepted[s] = RosterTick
    /\ lastGuessTimestamps[players[s]] = accepted[s]

\* C10: an admin-password attempt made inside the 60 s window that follows
\* the fifth failure answers 429, leaves the guard record as it is and
\* generates no session code.
C10_LockoutWindow ==
  [][\A p \in Passwords :
       (now < lockedWindow.adminPassword /\ VerifyAdmin(p, "111111"))
       => (/\ out' = {Msg("http", "429")}
           /\ UNCHANGED <<bruteForceProtection, gameCode>>)]_vars


\* C11: a right admin password sent when the admin-password key is not locked
\* (now >= blockedUntil, the instant the lock runs out included) answers 200
\* with a session code and leaves the key with no failures and no lock.
C11_RightPasswordAfterLock ==
  [][(/\ now >= bruteForceProtection.adminPassword.blockedUntil
      /\ VerifyAdmin("good", "111111"))
     => (/\ out' = {Msg("http", "200")}
         /\ gameCode' = "111111"
         /\ adminConnected'
         /\ bruteForceProtection'.adminPassword.failedAttempts = 0
         /\ ~(now' < bruteForceProtection'.adminPassword.blockedUntil))]_vars

\* The right password has just been accepted at the very instant a lock on
\* the admin-password key ran out.
C11_Witness ==
  /\ lockedWindow.adminPassword > NoTime
  /\ now = lockedWindow.adminPassword
  /\ out = {Msg("http", "200")}
  /\ gameCode = "111111"
  /\ gameCodeExpiry = now + CodeTtlMs
  /\ bruteForceProtection.adminPassword = FreshProtection

\* C12: a lock on a guard key, or a block on an address, that has not run out
\* after a step was neither cleared nor shortened by that step.
C12_NoEarlyLift ==
  [][/\ \A k \in {"adminPassword", "gameCode"} :
          now' < bruteForceProtection[k].blockedUntil
          => bruteForceProtection'[k].blockedUntil >= bruteForceProtection[k].blockedUntil
     /\ \A ip \in DOMAIN blockedIps :
          now' < blockedIps[ip].blockedUntil
          => (/\ Has(blockedIps', ip)
              /\ blockedIps'[ip].blockedUntil >= blockedIps[ip].blockedUntil)]_vars

\* C13: right after a successful admin sign-in the roster, the scores, the
\* round and the stored track states are empty, both guard records are zero,
\* the generated code is active for 30 minutes and the admin is bound.
C13_SignInStartsClean ==
  [][\A c \in Codes :
       (VerifyAdmin("good", c) /\ out' = {Msg("http", "200")})
       => (/\ players' = EmptyMap
           /\ activeUsernames' = {}
           /\ scores' = EmptyMap
           /\ currentSong' = NoSong
           /\ guessedParts' = FreshParts
           /\ songStates' = EmptyMap
           /\ trackStatus' = EmptyMap
           /\ bruteForceProtection' = FreshBruteForce
           /\ gameCode' = c
           /\ gameCodeExpiry' = now + CodeTtlMs
           /\ adminConnected')]_vars

\* C15: no connection becomes bound in players while its source address has
\* a block that has not run out.
C15_NoJoinFromBlockedAddress ==
  [][\A s \in NetSockets :
       (~Has(players, s) /\ Has(players', s)) => ~IsIpBlocked(IpOf(s))]_vars

\* C16: a kick of a joined player by the bound admin removes the player and
\* blocks the connection's source address for 10 minutes with the reason.
C16_KickBlocksAddress ==
  [][\A s \in NetSockets :
       (Has(players, s) /\ adminConnected /\ KickPlayer(s, "kicked"))
       => (/\ ~Has(players', s)
           /\ Has(blockedIps', IpOf(s))
           /\ blockedIps'[IpOf(s)] = [blockedUntil |-> now + BlockMs, reason |-> "kicked"])]_vars

\* C14: while no admin is bound, a kick, manual award, score override, score
\* reset or playlist reset leaves the game state as it is.
C14_AdminOnly ==
  [][(/\ ~adminConnected
      /\ \/ ResetScores
         \/ ResetPlaylist
         \/ \E n \in Names : \E v \in ScoreInputs : UpdateScore(n, v)
         \/ \E n \in Names : \E c \in Categories : ManualAward(n, c)
         \/ \E s \in Sockets : KickPlayer(s, "kicked"))
     => UNCHANGED gameVars]_vars

\* C17: a wrong code sent to playerJoin or to the socket verifyGameCode event
\* while the gameCode key is not locked is recorded as a failure on that key.
C17_WrongCodeCounts ==
  [][\A s \in NetSockets : \A c \in Codes :
       (/\ s \in connected
        /\ gameCode # NoCode /\ c # gameCode
        /\ ~IsBlocked(bruteForceProtection, "gameCode")
        /\ \/ VerifyGameCodeSocket(s, c)
           \/ \E n \in Names : PlayerJoin(s, n, c))
       => bruteForceProtection' =
            RecordFailedAttempt(CheckBruteForceProtection(bruteForceProtection, "gameCode"),
                                "gameCode")]_vars

\* C18: while a round start is in flight, the only step that changes the
\* game state is the one that completes it.
C18_RoundStartAtomic ==
  [][(pendingPlay # {} /\ gameVars' # gameVars) => pendingPlay' # pendingPlay]_vars

\* C19: no two connections in players have the same name; a join for a name
\* bound to another connection detaches that connection and binds the new
\* one when the name has a score, and is else refused with no state change.
UniqueNames ==
  \A x \in DOMAIN players : \A y \in DOMAIN players : players[x] = players[y] => x = y

C19_NamesUnique ==
  /\ []UniqueNames
  /\ [][\A s \in Sockets : \A n \in Names : \A e \in Sockets \ {s} :
          (/\ Has(players, e) /\ players[e] = n
           /\ gameCode # NoCode /\ ~CodeExpired
           /\ PlayerJoin(s, n, gameCode))
          => IF Has(scores, n)
               THEN players' = Put(Del(players, e), s, n)
               ELSE /\ UNCHANGED gameVars
                    /\ out' = {Msg(s, "usernameTaken")}]_vars

\* A join for a name held by another connection has just been refused, in a
\* game where a name that has guessed was bound again (by a takeover or a
\* reconnection, which drop its timestamp).
C19_Witness ==
  /\ \E s \in connected \ DOMAIN players : out = {Msg(s, "usernameTaken")}
  /\ \E n \in Names : Has(processed, n) /\ ~Has(lastGuessTimestamps, n)
                        /\ n \in Values(players)
  /\ UniqueNames

\* C20: activeUsernames is the set of names bound in players.
C20_ActiveNamesAreBound == activeUsernames = Values(players)

\* C21: reconnection keeps the score. A disconnect changes no score, and when
\* a connection joins under a name that is no longer bound but still has a
\* scores entry (its player left earlier), the join leaves the whole scores
\* map as it was: the name keeps its score, no entry is added, and no other
\* player's score moves.
C21_ReconnectKeepsScore ==
  [][/\ \A s \in Sockets : Disconnect(s) => scores' = scores
     /\ \A s \in Sockets, n \in Names, c \in Codes :
          (/\ PlayerJoin(s, n, c)
           /\ Has(scores, n)
           /\ n \notin Values(players)
           /\ Has(players', s))
          => scores' = scores]_vars

\* The current code is presented after its expiry has passed.
PresentsExpired(code) == gameCode # NoCode /\ code = gameCode /\ CodeExpired

\* The step ends the session: code and expiry absent, admin unbound, roster,
\* scores and round states empty, and 'gameEnded' sent to every client.
SessionEnds ==
  /\ gameCode' = NoCode /\ gameCodeExpiry' = NoTime /\ ~adminConnected'
  /\ players' = EmptyMap /\ scores' = EmptyMap /\ activeUsernames' = {}
  /\ currentSong' = NoSong /\ songStates' = EmptyMap /\ trackStatus' = EmptyMap
  /\ Msg("all", "gameEnded") \in out'

\* A join or a socket verification with the expired current code is refused
\* and ends the session in the same step.
ExpiredOnSocket ==
  /\ \A s \in NetSockets, n \in Names, c \in Codes :
       PlayerJoin(s, n, c) /\ PresentsExpired(c)
         => SessionEnds /\ Msg(s, "gameCodeInvalid") \in out'
  /\ \A s \in NetSockets, c \in Codes :
       VerifyGameCodeSocket(s, c) /\ PresentsExpired(c)
         => SessionEnds /\ Msg(s, "gameCodeInvalid") \in out'

\* C22 as stated: every join or code verification that presents the current
\* code after its expiry is refused and, in the same step, ends the session
\* with a notice to all clients, the HTTP verification included whatever the
\* state of the address table and of the gameCode guard.
C22_ExpiredCodeAlwaysResets ==
  [][/\ ExpiredOnSocket
     /\ \A ip \in Ips, c \in Codes :
          VerifyGameCodeHttp(ip, c) /\ PresentsExpired(c)
            => SessionEnds /\ Msg("http", "400") \in out']_vars

\* C22: a join or a socket verification that presents the current code after
\* its expiry is refused and ends the session in the same step, with the
\* notice to all clients. An HTTP verification does the same when the address
\* is not blocked and the gameCode guard is not locked; while the address is
\* blocked it is refused with 403, while the guard is locked with 429, and in
\* both cases the session is left as it was.
C22_ExpiredCodeResets ==
  [][/\ ExpiredOnSocket
     /\ \A ip \in Ips, c \in Codes :
          VerifyGameCodeHttp(ip, c) /\ PresentsExpired(c)
            => IF IsIpBlocked(ip)
                 THEN out' = {Msg("http", "403")} /\ UNCHANGED resetVars
               ELSE IF IsBlocked(bruteForceProtection, "gameCode")
                 THEN /\ out' = {Msg("http", "429")}
                      /\ UNCHANGED <<codeVars, rosterVars, roundVars>>
               ELSE SessionEnds /\ Msg("http", "400") \in out']_vars

\* A join with the expired code has just been refused and has ended a session
\* that had a player on its roster at an address still in the block table.
C22_Witness ==
  /\ \E s \in NetSockets : out = {Msg("all", "gameEnded"), Msg(s, "gameCodeInvalid")}
  /\ gameCode = NoCode /\ players = EmptyMap /\ scores = EmptyMap
  /\ blockedIps # EmptyMap

\* The session is over: no code, nobody on the roster, no scores, and
\* 'gameEnded' has just gone out to every client.
SessionOver ==
  /\ gameCode = NoCode /\ players = EmptyMap /\ scores = EmptyMap
  /\ Msg("all", "gameEnded") \in out

\* C23: abandoned sessions are eventually cleaned up. Whenever the clock is
\* past the expiry of the current code, then, the periodic sweep being weakly
\* fair, eventually either the session is reset (code absent, roster and
\* scores empty) with the session-ended notice broadcast, or a round start
\* has moved the expiry past the clock again. No client step is needed: the
\* sweep alone brings it about.
C23_SweepEventuallyResets ==
  (gameCode # NoCode /\ CodeExpired)
    ~> (SessionOver \/ (gameCode # NoCode /\ ~CodeExpired))

\* The sweep has just ended a session whose clients are still connected.
C23_Witness ==
  /\ out = {Msg("all", "gameEnded")}
  /\ gameCode = NoCode /\ players = EmptyMap /\ scores = EmptyMap
  /\ connected # {}

\* C24: every round start on an active session sets the expiry to the time of
\* the round start plus 30 minutes; while the session lasts its expiry never
\* moves back; and a session is ended only when the clock is past its expiry.
\* So a session with a round start less than 30 minutes ago is neither
\* expired nor reset by the expiry check.
C24_RoundStartExtends ==
  [][/\ \A t \in Tracks :
          PlayRequest(t) /\ gameCode # NoCode
            => gameCodeExpiry' = now + CodeTtlMs /\ gameCode' = gameCode
     /\ gameCode # NoCode /\ gameCode' # NoCode => gameCodeExpiry' >= gameCodeExpiry
     /\ gameCode # NoCode /\ gameCode' = NoCode => now > gameCodeExpiry]_vars

\* The session opened at the start of the clock is still running, with its
\* player, after the 30 minutes of the sign-in have passed: a round start
\* has extended it.
C24_Witness ==
  /\ gameCode # NoCode /\ ~CodeExpired
  /\ now > StartNow + CodeTtlMs
  /\ isPlaying /\ players # EmptyMap

\* C25: a session reset preserves the blocked-address table. In every step
\* that ends the session the code, expiry and admin binding, the roster and
\* scores, the round state and the stored track states, the brute-force
\* counters and the guess timestamps are cleared, while every entry of the
\* block table keeps its address, end time and reason and no entry is added.
\* The sweep, a join and a socket verification leave the table exactly as it
\* was; the HTTP verification has looked its own address up before the
\* reset, which drops that address's entry if it had already run out.
C25_ResetKeepsBlocks ==
  [][gameCode # NoCode /\ gameCode' = NoCode
       => /\ gameCodeExpiry' = NoTime /\ ~adminConnected'
          /\ players' = EmptyMap /\ scores' = EmptyMap /\ activeUsernames' = {}
          /\ currentSong' = NoSong /\ guessedParts' = FreshParts
          /\ bonusAwarded' = FALSE /\ playersWhoGuessed' = {}
          /\ currentGuesses' = FreshGuesses
          /\ songStates' = EmptyMap /\ trackStatus' = EmptyMap
          /\ bruteForceProtection' = FreshBruteForce
          /\ lastGuessTimestamps' = EmptyMap
          /\ DOMAIN blockedIps' \subseteq DOMAIN blockedIps
          /\ \A ip \in DOMAIN blockedIps :
               \/ Has(blockedIps', ip) /\ blockedIps'[ip] = blockedIps[ip]
               \/ now > blockedIps[ip].blockedUntil
          /\ (\A ip \in Ips, c \in Codes : ~VerifyGameCodeHttp(ip, c))
               => blockedIps' = blockedIps]_vars

\* The session has just been ended by the sweep while a kicked address is
\* still serving its block.
C25_Witness ==
  /\ out = {Msg("all", "gameEnded")}
  /\ gameCode = NoCode
  /\ \E ip \in DOMAIN blockedIps : now < blockedIps[ip].blockedUntil

\* C26: lyrics availability is fixed for the life of a round. While the
\* current song stays the same song with the same lyrics text, no step moves
\* the lyrics category between unavailable and an available state (guessed
\* or not), whatever the operation.
C26_LyricsAvailabilityFixed ==
  [][currentSong # NoSong /\ currentSong' = currentSong
       => ((guessedParts.lyrics = "null") <=> (guessedParts'.lyrics = "null"))]_vars

\* C27: the view of a round sent to clients never contains the answer of a
\* category that is still unguessed. Every round-start broadcast and every
\* game-state snapshot sent to a newly connected client carries answer text
\* only for categories whose guessed flag, in the same message, is set.
C27_NoUnguessedAnswers ==
  \A m \in out : m.ev \in {"newSong", "gameState"} => m.answers \subseteq m.parts

\* C28: updateScore rejects a negative value with a validation error (400)
\* and leaves every score unchanged; an accepted override sets the named
\* player's score to the given non-negative integer, and every other name has
\* the entry it had before, no more and no less.
C28_UpdateScoreExact ==
  [][\A n \in Names, v \in ScoreInputs :
       UpdateScore(n, v)
         => IF v < 0
              THEN scores' = scores /\ out' = {Msg("http", "400")}
              ELSE /\ Has(scores', n) /\ scores'[n] = v
                   /\ DOMAIN scores' = DOMAIN scores \cup {n}
                   /\ \A m \in DOMAIN scores \ {n} : scores'[m] = scores[m]
                   /\ Msg("http", "200") \in out']_vars

\* An override has just set one player's score to 2 while another player,
\* who has scored a point by guessing, keeps that point.
C28_Witness ==
  /\ Msg("all", "scoresUpdated") \in out
  /\ \E n \in Names, m \in Names :
       /\ n # m /\ Has(scores, n) /\ Has(scores, m)
       /\ scores[n] = 2 /\ scores[m] = 1
       /\ n \in Values(players) /\ m \in Values(players)

\* C29: round completion. Every state that makeGuess or manual-award stores
\* for a track records as isComplete the allPartsGuessed value computed from
\* the flags stored with it, and that value is true exactly when the title is
\* guessed, the artist is guessed, and the lyrics are guessed or unavailable;
\* with lyrics available and unguessed it is false.
C29_CompleteIffAllParts ==
  \A id \in DOMAIN songStates :
    LET st == songStates[id]
        lyricsDone == st.guessedParts.lyrics = "true"
        lyricsNone == st.guessedParts.lyrics = "null"
    IN /\ st.isComplete <=>
            (st.guessedParts.title /\ st.guessedParts.artist /\ (lyricsDone \/ lyricsNone))
       /\ (~lyricsDone /\ ~lyricsNone) => ~st.isComplete

\* A track without lyrics is stored as complete with its title and artist
\* guessed, while another track, whose lyrics are available and not guessed,
\* is stored as not complete although its title and artist are guessed.
C29_Witness ==
  \E a \in DOMAIN songStates, b \in DOMAIN songStates :
    /\ songStates[a].isComplete /\ songStates[a].guessedParts.lyrics = "null"
    /\ ~songStates[b].isComplete /\ songStates[b].guessedParts.lyrics = "false"
    /\ songStates[b].guessedParts.title /\ songStates[b].guessedParts.artist

\* The guess of connection s is looked at: s is a player, a round is on, and
\* the player's last guess is at least a second old.
Heard(s) ==
  /\ Has(players, s) /\ currentSong # NoSong
  /\ ~(Has(lastGuessTimestamps, players[s]) /\ Throttled(lastGuessTimestamps[players[s]]))

\* C30: matchName is reflexive on normalized names. Whenever a guess that is
\* looked at gives as title exactly the word list of the current title, the
\* title not being guessed yet, the title becomes guessed and the guesser is
\* credited with it; and the same for a guess that gives exactly the word
\* list of one of the current artists. This holds for every non-empty word
\* list of up to MaxNameWords words, repeated words and words of one or two
\* letters included.
C30_MatchReflexive ==
  [][\A x \in MatchNames :
       /\ (/\ MakeGuess("s1", Guess(<<>>, x, NoLyrics))
           /\ Heard("s1") /\ x = currentSong.name /\ ~guessedParts.title)
          => /\ guessedParts'.title
             /\ \E m \in out' : /\ m.ev = "correctGuess" /\ m.player = players["s1"]
                                /\ "title" \in m.parts
       /\ (/\ MakeGuess("s1", Guess(x, <<>>, NoLyrics))
           /\ Heard("s1") /\ ~guessedParts.artist
           /\ \E i \in 1..Len(currentSong.artists) : x = currentSong.artists[i])
          => /\ guessedParts'.artist
             /\ \E m \in out' : /\ m.ev = "correctGuess" /\ m.player = players["s1"]
                                /\ "artist" \in m.parts]_vars

\* The title 'a a to', a repeated one-letter word and a two-letter word, has
\* just been guessed by typing it back.
C30_Witness ==
  /\ currentSong.name = <<"a", "a", "to">>
  /\ guessedParts.title /\ ~guessedParts.artist
  /\ GuessMsg("A", {"title"}, FALSE) \in out
  /\ Len(currentGuesses.title) = 1
  /\ currentGuesses.title[1].guess = <<"a", "a", "to">>

RECURSIVE LettersIn(_)
\* The number of letters a..z in a text.
LettersIn(text) ==
  IF text = <<>> THEN 0
  ELSE (IF Head(text) \in LetterChars THEN 1 ELSE 0) + LettersIn(Tail(text))

C32_ReplayRestoresRound ==
  [][\A t \in Tracks : \A l \in {TrackLyrics(t), NoLyrics} :
       (/\ PlayInstall(t, l)
        /\ currentSong # NoSong /\ currentSong' = currentSong
        /\ Has(songStates, t))
       => /\ guessedParts' = guessedParts
          /\ bonusAwarded' = bonusAwarded
          /\ playersWhoGuessed' = playersWhoGuessed
          /\ currentGuesses' = currentGuesses
          /\ scorers[t] \subseteq playersWhoGuessed']_vars

\* C33: manual award. On a category that is already solved the request is
\* refused (400) and nothing changes. On an available, unsolved category, for
\* a player with a score, it does what a successful guess of that player for
\* that one category does: the flag is set, the player becomes a contributor
\* and gets one point, plus the solo bonus exactly when the round thereby
\* becomes complete, no bonus was given and the player is the only
\* contributor; and the state stored for the track is the one a guess stores.
C33_ManualAwardLikeGuess ==
  [][\A n \in Names, c \in Categories :
       (ManualAward(n, c) /\ currentSong # NoSong)
       => LET solved == IF c = "lyrics" THEN guessedParts.lyrics = "true"
                        ELSE guessedParts[c]
              open == IF c = "lyrics" THEN guessedParts.lyrics = "false"
                      ELSE ~guessedParts[c]
              gp == [guessedParts EXCEPT ![c] = IF c = "lyrics" THEN "true" ELSE TRUE]
              all == AllPartsGuessed(gp)
              contributors == playersWhoGuessed \cup {n}
              bonus == all /\ ~bonusAwarded /\ contributors = {n}
              id == currentSong.id
          IN /\ solved => /\ out' = {Msg("http", "400")}
                          /\ UNCHANGED <<scores, roundVars>>
             /\ (open /\ Has(scores, n) /\ scores[n] # NaN)
                  => /\ guessedParts' = gp
                     /\ playersWhoGuessed' = contributors
                     /\ bonusAwarded' = (bonusAwarded \/ bonus)
                     /\ scores' = Put(scores, n, scores[n] + 1 + (IF bonus THEN 1 ELSE 0))
                     /\ songStates'[id] =
                          GuessSavedState(all, gp, bonusAwarded, playersWhoGuessed,
                                          songStates'[id].currentGuesses)]_vars

\* C34: every score change is announced. Whenever a step changes the scores,
\* the same step sends to all clients an event that tells of the change:
\* correctGuess, scoresUpdated, scoresReset, the session-ended notice, or the
\* playerJoined event that carries the scores of a new player.
C34_ScoreChangeAnnounced ==
  [][scores' # scores
       => \E m \in out' :
            /\ m.to = "all"
            /\ m.ev \in {"correctGuess", "scoresUpdated", "scoresReset", "gameEnded",
                         "playerJoined"}]_vars

\* C35: after a lockout has run out the key is not locked again by a single
\* failure. When a key has been locked, the clock is at or past the end of
\* the lock and no failure has been recorded since, a wrong admin password,
\* or a wrong code over HTTP, leaves the key unlocked.
C35_OneFailureNoRelock ==
  [][/\ (/\ bruteForceProtection.adminPassword.blockedUntil > 0
         /\ now >= bruteForceProtection.adminPassword.blockedUntil
         /\ bruteForceProtection.adminPassword.lastFailedAttempt
              < bruteForceProtection.adminPassword.blockedUntil
         /\ VerifyAdmin("bad", "111111"))
        => ~(now' < bruteForceProtection'.adminPassword.blockedUntil)
     /\ \A c \in Codes :
          (/\ bruteForceProtection.gameCode.blockedUntil > 0
           /\ now >= bruteForceProtection.gameCode.blockedUntil
           /\ bruteForceProtection.gameCode.lastFailedAttempt
                < bruteForceProtection.gameCode.blockedUntil
           /\ VerifyGameCodeHttp("ip1", c) /\ out' = {Msg("http", "401")})
          => ~(now' < bruteForceProtection'.gameCode.blockedUntil)]_vars

\* C36: an expired session is never revived. Once the clock is past the
\* expiry of the current code, every step either ends the session or leaves
\* the same code expired; and a join or a code verification that presents the
\* code in that state is not accepted.
C36_ExpiredStaysExpired ==
  [][(gameCode # NoCode /\ CodeExpired)
       => /\ \/ gameCode' = NoCode
             \/ gameCode' = gameCode /\ now' > gameCodeExpiry'
          /\ \A s \in Sockets : ~Has(players, s) => ~Has(players', s)
          /\ \A m \in out' : m.ev \notin {"gameCodeValid", "playerJoined"}]_vars

\* C37: after a session reset no round is active until a round start that
\* begins after the reset. With one sign-in and no playlist reset, isPlaying
\* is false only before the first round start and from the session reset to
\* the next round start, so a round start that
\* completes while isPlaying is false was in flight when the reset happened:
\* it installs no current track, moves no expiry and broadcasts no new round.
C37_InFlightStartDropped ==
  [][\A t \in Tracks :
       (PlayInstall(t, TrackLyrics(t)) /\ ~isPlaying)
       => /\ currentSong' = currentSong
          /\ gameCodeExpiry' = gameCodeExpiry
          /\ \A m \in out' : m.ev # "newSong"]_vars

\* C38: the track status of the current track agrees with its guessed flags
\* after every guess and every manual award that was handled for a player of
\* a running round: the status is 'complete' exactly when the round is
\* complete, and 'partial' exactly when some category is guessed and the
\* round is not complete.
C38_StatusAgreesWithFlags ==
  [][(/\ currentSong # NoSong
      /\ \/ \E s \in DOMAIN players : \E g \in AllGuesses(currentSong.id) : MakeGuess(s, g)
         \/ \E n \in Names, c \in Categories : ManualAward(n, c))
     => LET status == GetTrackStatus(trackStatus', currentSong.id)
            complete == AllPartsGuessed(guessedParts')
        IN /\ status = "complete" <=> complete
           /\ status = "partial" <=> (AnyGuessed(guessedParts') /\ ~complete)]_vars

\* The guess repeats one word of a name that has at least two distinct words,
\* and none of the rules the claim sets aside applies: the guess is not the
\* name itself, is not the name typed without spaces, and does not fall under
\* the significant-word rule for shorter guesses.
RepeatsOneWord(actualWords, guessWords) ==
  /\ Cardinality({actualWords[i] : i \in 1..Len(actualWords)}) >= 2
  /\ Len(guessWords) >= 2
  /\ \A i \in 1..Len(guessWords) : guessWords[i] = guessWords[1]
  /\ InWords(guessWords[1], actualWords)
  /\ guessWords # actualWords
  /\ LET significant == {i \in 1..Len(actualWords) : Len(actualWords[i]) > 2}
         found == {i \in significant : InWords(actualWords[i], guessWords)}
     IN ~(/\ Len(guessWords) < Len(actualWords)
          /\ significant # {}
          /\ 10 * Cardinality(found) >= 9 * Cardinality(significant))

\* C39: matchName does not accept a guess on repeated words. A title guess,
\* or an artist guess, that is looked at and only repeats one word of a name
\* with at least two distinct words leaves the category unguessed.
C39_RepeatedWordRejected ==
  [][\A x \in MatchNames :
       /\ (/\ MakeGuess("s1", Guess(<<>>, x, NoLyrics))
           /\ Heard("s1") /\ ~guessedParts.title
           /\ RepeatsOneWord(currentSong.name, x))
          => ~guessedParts'.title
       /\ (/\ MakeGuess("s1", Guess(x, <<>>, NoLyrics))
           /\ Heard("s1") /\ ~guessedParts.artist
           /\ \A i \in 1..Len(currentSong.artists) :
                 \/ RepeatsOneWord(currentSong.artists[i], x)
                 \/ \A k \in 1..Len(x) : ~InWords(x[k], currentSong.artists[i]))
          => ~guessedParts'.artist]_vars

\* C40: every joined connection has a recorded source address. In every
\* reachable state each connection in players has an entry in socketToIp.
C40_PlayersHaveAddress ==
  \A s \in DOMAIN players : Has(socketToIp, s)

====
